---- MODULE Spec2Model ----
(***************************************************************************)
(* Model of spoofbot's HarAdapter (src/spoofbot/adapter/har.py): a replay  *)
(* adapter that answers a live request with the recorded response of the   *)
(* first HAR entry whose request matches it.                               *)
(*                                                                         *)
(* Text (header names and values, cookie strings) is a sequence of        *)
(* one-character strings, so that folding the case of a name and parsing   *)
(* a Cookie header are computations.  A mapping                            *)
(* (dict, CaseInsensitiveDict) is a record [ci, items]: items is the       *)
(* insertion-ordered sequence of [name, value] and ci says whether keys    *)
(* are looked up case-insensitively.                                       *)
(***************************************************************************)
EXTENDS Integers, Sequences, FiniteSets, TLC

VARIABLES entries, loaded, strict_matching, delete_after_match,
          last, run, th, live, cached, verdict

vars == <<entries, loaded, strict_matching, delete_after_match,
          last, run, th, live, cached, verdict>>

\* ------------------------------------------------------------------ bounds
MaxEntries == 3
MaxSends == 4
NumThreads == 2

\* -------------------------------------------------------------------- text
TextX == <<"x">>
TextY == <<"y">>
CookieAB == <<"a", "=", "1", ";", " ", "b", "=", "2">>
CookieBA == <<"b", "=", "2", ";", " ", "a", "=", "1">>
CookieA == <<"a", "=", "1">>
EmptyText == <<>>

\* header names, like all text, are sequences of characters
NameAccept == <<"A", "c", "c", "e", "p", "t">>
NameAcceptLower == <<"a", "c", "c", "e", "p", "t">>
NameCookie == <<"C", "o", "o", "k", "i", "e">>
NameCookieLower == <<"c", "o", "o", "k", "i", "e">>
NameContentType == <<"C", "o", "n", "t", "e", "n", "t", "-", "T", "y", "p", "e">>
NameLocation == <<"L", "o", "c", "a", "t", "i", "o", "n">>

\* str.lower() of one character: the upper-case letters and their folds
LowerFold ==
  ("A" :> "a") @@ ("B" :> "b") @@ ("C" :> "c") @@ ("D" :> "d") @@
  ("E" :> "e") @@ ("F" :> "f") @@ ("G" :> "g") @@ ("H" :> "h") @@
  ("I" :> "i") @@ ("J" :> "j") @@ ("K" :> "k") @@ ("L" :> "l") @@
  ("M" :> "m") @@ ("N" :> "n") @@ ("O" :> "o") @@ ("P" :> "p") @@
  ("Q" :> "q") @@ ("R" :> "r") @@ ("S" :> "s") @@ ("T" :> "t") @@
  ("U" :> "u") @@ ("V" :> "v") @@ ("W" :> "w") @@ ("X" :> "x") @@
  ("Y" :> "y") @@ ("Z" :> "z")

LowerChar(c) == IF c \in DOMAIN LowerFold THEN LowerFold[c] ELSE c

\* str.lower(): every character of the text is folded
Lower(s) == [j \in 1..Len(s) |-> LowerChar(s[j])]

\* position of the first occurrence of character c in s, 0 when absent
RECURSIVE FindFrom(_, _, _)
FindFrom(s, c, k) ==
  IF k > Len(s) THEN 0
  ELSE IF s[k] = c THEN k
  ELSE FindFrom(s, c, k + 1)

RECURSIVE Split(_, _)
Split(s, c) ==
  LET k == FindFrom(s, c, 1) IN
  IF k = 0 THEN <<s>>
  ELSE <<SubSeq(s, 1, k - 1)>> \o Split(SubSeq(s, k + 1, Len(s)), c)

RECURSIVE Strip(_)
Strip(s) ==
  IF s = <<>> THEN s
  ELSE IF s[1] = " " THEN Strip(Tail(s))
  ELSE IF s[Len(s)] = " " THEN Strip(SubSeq(s, 1, Len(s) - 1))
  ELSE s

\* ---------------------------------------------------------------- mappings
Key(d, k) == IF d.ci THEN Lower(k) ELSE k

Has(d, k) == \E j \in 1..Len(d.items) : Key(d, d.items[j].name) = Key(d, k)

Get(d, k) ==
  LET j == CHOOSE j \in 1..Len(d.items) : Key(d, d.items[j].name) = Key(d, k)
  IN d.items[j].value

GetOr(d, k, default) == IF Has(d, k) THEN Get(d, k) ELSE default

\* d[k] = v : an existing key keeps its position and takes the spelling of
\* k (CaseInsensitiveDict stores (key, value) under key.lower()); a new key
\* is appended
SetItem(d, k, v) ==
  IF Has(d, k)
  THEN [d EXCEPT !.items =
          [j \in 1..Len(d.items) |->
             IF Key(d, d.items[j].name) = Key(d, k)
             THEN [name |-> k, value |-> v]
             ELSE d.items[j]]]
  ELSE [d EXCEPT !.items = Append(d.items, [name |-> k, value |-> v])]

\* list(d.keys()) and the set-like view d.keys()
KeyList(d) == [j \in 1..Len(d.items) |-> d.items[j].name]
KeysView(d) == {d.items[j].name : j \in 1..Len(d.items)}

Headers(items) == [ci |-> TRUE, items |-> items]
EmptyDict == [ci |-> FALSE, items |-> <<>>]

\* ------------------------------------------------------------ cookie codec
RECURSIVE CookiePairs(_, _)
CookiePairs(segs, d) ==
  IF segs = <<>> THEN d
  ELSE LET seg == Strip(Head(segs))
           k == FindFrom(seg, "=", 1)
       IN IF seg = <<>> THEN CookiePairs(Tail(segs), d)
          ELSE IF k = 0 THEN CookiePairs(Tail(segs), SetItem(d, seg, EmptyText))
          ELSE CookiePairs(Tail(segs),
                 SetItem(d, SubSeq(seg, 1, k - 1), SubSeq(seg, k + 1, Len(seg))))

\* "a=1; b=2" -> {a: "1", b: "2"}, "" -> {}
cookie_header_to_dict(text) == CookiePairs(Split(text, ";"), EmptyDict)

\* ----------------------------------------------------------------- matcher
\* the three diagnostic lists of _are_dicts_same
MissingKeys(request_dict, cached_dict) ==
  SelectSeq(KeyList(cached_dict), LAMBDA k : ~Has(request_dict, k))

MismatchingKeys(request_dict, cached_dict) ==
  SelectSeq(KeyList(cached_dict),
            LAMBDA k : Has(request_dict, k)
                       /\ Get(request_dict, k) # Get(cached_dict, k))

RedundantKeys(request_dict, cached_dict) ==
  SelectSeq(KeyList(request_dict), LAMBDA k : ~Has(cached_dict, k))

\* variant: redundant entries of the request mapping are not counted
_are_dicts_same_no_redundant(request_dict, cached_dict) ==
  /\ Len(MissingKeys(request_dict, cached_dict)) = 0
  /\ Len(MismatchingKeys(request_dict, cached_dict)) = 0

_are_dicts_same(request_dict, cached_dict) ==
  /\ Len(MissingKeys(request_dict, cached_dict)) = 0
  /\ Len(RedundantKeys(request_dict, cached_dict)) = 0
  /\ Len(MismatchingKeys(request_dict, cached_dict)) = 0

\* dict(request_headers).keys() != dict(cached_headers).keys() compares
\* two key views, which Python compares as sets
_do_keys_match(request_headers, cached_headers) ==
  KeysView(request_headers) = KeysView(cached_headers)

\* success &= ... : every comparison is evaluated, none short-circuits
_do_headers_match(request_headers, cached_headers) ==
  LET keys == _do_keys_match(request_headers, cached_headers)
      same == _are_dicts_same(request_headers, cached_headers)
      cookies ==
        IF Has(cached_headers, NameCookie) \/ Has(request_headers, NameCookie)
        THEN _are_dicts_same(
               cookie_header_to_dict(GetOr(request_headers, NameCookie, EmptyText)),
               cookie_header_to_dict(GetOr(cached_headers, NameCookie, EmptyText)))
        ELSE TRUE
  IN keys /\ same /\ cookies

\* Python truthiness of a body: None and the empty string are falsy
None == "<None>"
Truthy(body) == body # None /\ body # ""

\* variant: only the urls are compared before the mode-specific checks
_match_requests_url_only(request, cached_request, strict) ==
  /\ cached_request.url = request.url
  /\ strict => /\ _do_headers_match(request.headers, cached_request.headers)
               /\ Truthy(cached_request.body)
                    => cached_request.body = request.body

\* variant: the test of the strictness setting is inverted
_match_requests_inverted(request, cached_request, strict) ==
  /\ cached_request.method = request.method
  /\ cached_request.url = request.url
  /\ ~strict => /\ _do_headers_match(request.headers, cached_request.headers)
                /\ Truthy(cached_request.body)
                     => cached_request.body = request.body

\* variant: the strictness setting is ignored, every comparison is strict
_match_requests_always_strict(request, cached_request, strict) ==
  /\ cached_request.method = request.method
  /\ cached_request.url = request.url
  /\ _do_headers_match(request.headers, cached_request.headers)
  /\ Truthy(cached_request.body) => cached_request.body = request.body

\* variant: the bodies are compared even when the recorded body is empty
_match_requests_body_symmetric(request, cached_request, strict) ==
  /\ cached_request.method = request.method
  /\ cached_request.url = request.url
  /\ strict => /\ _do_headers_match(request.headers, cached_request.headers)
               /\ cached_request.body = request.body

_match_requests(request, cached_request, strict) ==
  IF cached_request.method = request.method /\ cached_request.url = request.url
  THEN IF strict
       THEN IF ~_do_headers_match(request.headers, cached_request.headers)
            THEN FALSE
            ELSE IF Truthy(cached_request.body)
                    /\ cached_request.body # request.body
                 THEN FALSE
                 ELSE TRUE
       ELSE TRUE
  ELSE FALSE

\* --------------------------------------------- the comparisons performed
\* One record per comparison a call of _match_requests carries out, in the
\* order of execution, with what it logs: the key lists for the key check,
\* the three lists of _are_dicts_same for a mapping comparison.
KeysCheck(request_headers, cached_headers) ==
  [check |-> "keys",
   ok |-> _do_keys_match(request_headers, cached_headers),
   request_dict |-> request_headers, cached_dict |-> cached_headers,
   missing |-> <<>>, redundant |-> <<>>, mismatching |-> <<>>]

DictCheck(name, request_dict, cached_dict) ==
  [check |-> name,
   ok |-> _are_dicts_same(request_dict, cached_dict),
   request_dict |-> request_dict, cached_dict |-> cached_dict,
   missing |-> MissingKeys(request_dict, cached_dict),
   redundant |-> RedundantKeys(request_dict, cached_dict),
   mismatching |-> MismatchingKeys(request_dict, cached_dict)]

BodyCheck(request, cached_request) ==
  [check |-> "body",
   ok |-> cached_request.body = request.body,
   request_dict |-> EmptyDict, cached_dict |-> EmptyDict,
   missing |-> <<>>, redundant |-> <<>>, mismatching |-> <<>>]

\* the comparisons of _do_headers_match
HeaderChecks(request_headers, cached_headers) ==
  <<KeysCheck(request_headers, cached_headers),
    DictCheck("headers", request_headers, cached_headers)>>
  \o (IF Has(cached_headers, NameCookie) \/ Has(request_headers, NameCookie)
      THEN <<DictCheck("cookies",
               cookie_header_to_dict(GetOr(request_headers, NameCookie, EmptyText)),
               cookie_header_to_dict(GetOr(cached_headers, NameCookie, EmptyText)))>>
      ELSE <<>>)

\* variant: a key mismatch ends the header comparison at once
Comparisons_short_circuit(request, cached_request, strict) ==
  IF cached_request.method = request.method /\ cached_request.url = request.url
     /\ strict
  THEN IF ~_do_keys_match(request.headers, cached_request.headers)
       THEN <<KeysCheck(request.headers, cached_request.headers)>>
       ELSE HeaderChecks(request.headers, cached_request.headers)
            \o (IF _do_headers_match(request.headers, cached_request.headers)
                   /\ Truthy(cached_request.body)
                THEN <<BodyCheck(request, cached_request)>> ELSE <<>>)
  ELSE <<>>

\* the comparisons of _match_requests
Comparisons(request, cached_request, strict) ==
  IF cached_request.method = request.method /\ cached_request.url = request.url
     /\ strict
  THEN HeaderChecks(request.headers, cached_request.headers)
       \o (IF _do_headers_match(request.headers, cached_request.headers)
              /\ Truthy(cached_request.body)
           THEN <<BodyCheck(request, cached_request)>> ELSE <<>>)
  ELSE <<>>

\* ------------------------------------------------------------ input domain
Methods == {"GET", "POST"}
Urls == {"https://host.test/a", "https://host.test/b"}
Bodies == {None, "", "x=1", "x=2"}

H(name, value) == [name |-> name, value |-> value]
HeaderDicts ==
  { Headers(<<>>),
    Headers(<<H(NameAccept, TextX)>>),
    Headers(<<H(NameAccept, TextY)>>),
    Headers(<<H(NameAcceptLower, TextX)>>),
    Headers(<<H(NameAccept, TextX), H(NameCookie, CookieAB)>>),
    Headers(<<H(NameCookie, CookieAB), H(NameAccept, TextX)>>),
    Headers(<<H(NameAccept, TextX), H(NameCookie, CookieBA)>>),
    Headers(<<H(NameAccept, TextX), H(NameCookie, CookieA)>>),
    Headers(<<H(NameCookieLower, CookieBA)>>) }

Requests ==
  [method : Methods, url : Urls, headers : HeaderDicts, body : Bodies]


NoRequest == [method |-> "", url |-> "", headers |-> Headers(<<>>), body |-> None]
NoVerdict == [done |-> FALSE, value |-> FALSE, checks |-> <<>>]

\* ------------------------------------------------------------- the capture
\* A HAR entry: request.headers and response.headers are lists of
\* {name, value}; request.postData is None when the capture has none.
\* id stands for the identity of the entry object in the loaded list (its
\* position in the capture); content is the recorded response text.
HarRequest(method, url, headers, postData) ==
  [method |-> method, url |-> url, headers |-> headers, postData |-> postData]

HarResponse(status, redirectURL) ==
  [status |-> status, redirectURL |-> redirectURL,
   headers |-> IF redirectURL = "" THEN <<H(NameContentType, TextX)>>
               ELSE <<H(NameLocation, TextY)>>]

EntryTemplates ==
  { [request |-> HarRequest("GET", "https://host.test/a",
                   <<H(NameAccept, TextX), H(NameCookie, CookieAB)>>, None),
     response |-> HarResponse(200, "")],
    [request |-> HarRequest("GET", "https://host.test/a",
                   <<H(NameAccept, TextX), H(NameCookie, CookieBA)>>, None),
     response |-> HarResponse(302, "/next")],
    [request |-> HarRequest("POST", "https://host.test/a",
                   <<H(NameAccept, TextX)>>, "x=1"),
     response |-> HarResponse(301, "https://other.test/y")],
    [request |-> HarRequest("GET", "https://host.test:8443/a",
                   <<H(NameAccept, TextX)>>, None),
     response |-> HarResponse(302, "/next")] }

\* the entries of a capture made of the given templates, in capture order
Capture(ts) ==
  [j \in 1..Len(ts) |->
     [id |-> j, request |-> ts[j].request,
      response |-> [status |-> ts[j].response.status,
                    redirectURL |-> ts[j].response.redirectURL,
                    headers |-> ts[j].response.headers,
                    content |-> j]]]

SeqsUpTo(S, n) == UNION {[1..k -> S] : k \in 0..n}

Captures == {Capture(ts) : ts \in SeqsUpTo(EntryTemplates, MaxEntries)}

\* the live requests the client issues
LiveRequests ==
  { [method |-> "GET", url |-> "https://host.test/a",
     headers |-> Headers(<<H(NameAccept, TextX), H(NameCookie, CookieAB)>>),
     body |-> None],
    [method |-> "POST", url |-> "https://host.test/a",
     headers |-> Headers(<<H(NameAccept, TextX)>>), body |-> "x=2"],
    [method |-> "GET", url |-> "https://host.test:8443/a",
     headers |-> Headers(<<H(NameAccept, TextX)>>), body |-> None] }

\* --------------------------------------------------- entry <-> snapshot
RECURSIVE HeaderDict(_, _)
HeaderDict(pairs, d) ==
  IF pairs = <<>> THEN d
  ELSE HeaderDict(Tail(pairs), SetItem(d, Head(pairs).name, Head(pairs).value))

\* prepare_request(request_from_entry(entry))
request_from_entry(entry) ==
  [method |-> entry.request.method,
   url |-> entry.request.url,
   headers |-> HeaderDict(entry.request.headers, Headers(<<>>)),
   body |-> entry.request.postData]

\* build_response(request, response_from_entry(entry))
response_from_entry(entry) ==
  [status |-> entry.response.status,
   headers |-> HeaderDict(entry.response.headers, Headers(<<>>)),
   content |-> entry.response.content]

NoEntry == [id |-> 0]
NoResponse == [status |-> 0]

\* ------------------------------------------------------------------- send
\* variant: the scan keeps going after a match, the last match wins
RECURSIVE Scan_last(_, _, _, _)
Scan_last(es, pos, request, strict) ==
  IF pos > Len(es) THEN 0
  ELSE LET later == Scan_last(es, pos + 1, request, strict) IN
       IF later # 0 THEN later
       ELSE IF _match_requests(request, request_from_entry(es[pos]), strict)
            THEN pos ELSE 0

\* variant: a candidate that fails the comparison ends the scan
Scan_abort(es, pos, request, strict) ==
  IF pos > Len(es) THEN 0
  ELSE IF _match_requests(request, request_from_entry(es[pos]), strict) THEN pos
  ELSE 0

\* for i, entry in enumerate(self.entries): the position (from 1) of the
\* first entry at or after pos that matches, 0 when the loop runs out
RECURSIVE Scan(_, _, _, _)
Scan(es, pos, request, strict) ==
  IF pos > Len(es) THEN 0
  ELSE IF _match_requests(request, request_from_entry(es[pos]), strict) THEN pos
  ELSE Scan(es, pos + 1, request, strict)

\* variant: the last entry is moved into the freed position
RemoveAt_swap(es, pos) ==
  [j \in 1..(Len(es) - 1) |-> IF j = pos THEN es[Len(es)] ELSE es[j]]

\* del self._data['log']['entries'][i]
RemoveAt(es, pos) ==
  [j \in 1..(Len(es) - 1) |-> IF j < pos THEN es[j] ELSE es[j + 1]]

\* variant: the head of the list is removed, not the matched position
DeleteMatched_head(es, pos, delete) == IF delete THEN Tail(es) ELSE es

\* variant: the matched entry is never removed
DeleteMatched_never(es, pos, delete) == es

\* variant: the matched entry is removed whatever the setting
DeleteMatched_always(es, pos, delete) == RemoveAt(es, pos)

\* if self._delete_after_match: del ...
DeleteMatched(es, pos, delete) == IF delete THEN RemoveAt(es, pos) ELSE es

\* urllib3's parse_url on the urls the model uses: scheme, hostname (the
\* host without the port), port and path
parse_url(text) ==
  CASE text = "https://host.test/a" ->
         [scheme |-> "https", hostname |-> "host.test", port |-> "", path |-> "/a"]
    [] text = "https://host.test/b" ->
         [scheme |-> "https", hostname |-> "host.test", port |-> "", path |-> "/b"]
    [] text = "https://host.test:8443/a" ->
         [scheme |-> "https", hostname |-> "host.test", port |-> "8443", path |-> "/a"]
    [] text = "https://host.test/next" ->
         [scheme |-> "https", hostname |-> "host.test", port |-> "", path |-> "/next"]
    [] text = "https://host.test:8443/next" ->
         [scheme |-> "https", hostname |-> "host.test", port |-> "8443", path |-> "/next"]
    [] text = "https://other.test/y" ->
         [scheme |-> "https", hostname |-> "other.test", port |-> "", path |-> "/y"]
    [] text = "/next" ->
         [scheme |-> "", hostname |-> "", port |-> "", path |-> "/next"]

\* str(url) of a parsed url
UrlText(url) ==
  (IF url.scheme = "" THEN "" ELSE url.scheme \o "://")
    \o url.hostname
    \o (IF url.port = "" THEN "" ELSE ":" \o url.port)
    \o url.path

\* redirectURL.startswith('/') on the redirect targets the model uses
StartsWithSlash(text) == text \in {"/next"}

\* the url computed at lines 67-72 (the value logged at line 73), "" when
\* the entry has no redirect target
RedirectUrl(request, entry) ==
  LET target == entry.response.redirectURL IN
  IF target = "" THEN ""
  ELSE IF StartsWithSlash(target)
  THEN LET url == parse_url(request.url) IN
       UrlText(parse_url(url.scheme \o "://" \o url.hostname \o target))
  ELSE UrlText(parse_url(target))

\* variant: the list is changed only after the loop, at the last value of
\* i, so a scan that found nothing removes the last entry
StoreAfter_stale_delete(es, pos, delete) ==
  IF pos = 0
  THEN IF delete /\ es # <<>> THEN RemoveAt(es, Len(es)) ELSE es
  ELSE DeleteMatched(es, pos, delete)

\* the list when send is left: a scan that finds nothing never reaches
\* line 64
StoreAfter(es, pos, delete) ==
  IF pos = 0 THEN es ELSE DeleteMatched(es, pos, delete)

\* variant: the entry is read again from the list after the deletion
Outcome_reread(request, es, pos) ==
  IF pos = 0
  THEN [outcome |-> "NoMatchFound", index |-> 0,
        entry |-> NoEntry, response |-> NoResponse, redirect |-> ""]
  ELSE LET after == DeleteMatched(es, pos, delete_after_match)
           entry == IF pos <= Len(after) THEN after[pos] ELSE es[pos]
       IN [outcome |-> "response", index |-> pos,
           entry |-> entry, response |-> response_from_entry(entry),
           redirect |-> RedirectUrl(request, entry)]

\* what send hands back: the exception of line 84, or the response built
\* at line 82 from the local variable entry
Outcome(request, es, pos) ==
  IF pos = 0
  THEN [outcome |-> "NoMatchFound", index |-> 0,
        entry |-> NoEntry, response |-> NoResponse, redirect |-> ""]
  ELSE [outcome |-> "response", index |-> pos,
        entry |-> es[pos], response |-> response_from_entry(es[pos]),
        redirect |-> RedirectUrl(request, es[pos])]

NoLast ==
  [called |-> FALSE, request |-> NoRequest, strict |-> TRUE, delete |-> TRUE,
   before |-> <<>>, result |-> Outcome(NoRequest, <<>>, 0)]

NoRun ==
  [request |-> NoRequest, strict |-> TRUE, delete |-> TRUE,
   start |-> <<>>, results |-> <<>>]

\* the run of consecutive sends of one request under one configuration
SameRun(request) ==
  /\ run.request = request
  /\ run.strict = strict_matching
  /\ run.delete = delete_after_match

Init ==
  /\ entries \in Captures
  /\ loaded = entries
  /\ strict_matching = TRUE
  /\ delete_after_match = TRUE
  /\ last = NoLast
  /\ run = NoRun
  /\ th = <<>>
  /\ live = NoRequest /\ cached = NoRequest /\ verdict = NoVerdict

SetStrictMatching(value) ==
  /\ strict_matching' = value
  /\ UNCHANGED <<entries, loaded, delete_after_match, last, run, th,
                 live, cached, verdict>>

SetDeleteAfterMatch(value) ==
  /\ delete_after_match' = value
  /\ UNCHANGED <<entries, loaded, strict_matching, last, run, th,
                 live, cached, verdict>>

Send(request) ==
  \E pos \in {Scan(entries, 1, request, strict_matching)} :
  \E result \in {Outcome(request, entries, pos)} :
     /\ SameRun(request) => Len(run.results) < MaxSends
     /\ entries' = StoreAfter(entries, pos, delete_after_match)
     /\ last' = [called |-> TRUE, request |-> request,
                 strict |-> strict_matching, delete |-> delete_after_match,
                 before |-> entries, result |-> result]
     /\ run' = IF SameRun(request)
               THEN [run EXCEPT !.results = Append(@, result)]
               ELSE [request |-> request, strict |-> strict_matching,
                     delete |-> delete_after_match, start |-> entries,
                     results |-> <<result>>]
     /\ UNCHANGED <<loaded, strict_matching, delete_after_match, th,
                    live, cached, verdict>>

Next ==
  \/ \E value \in BOOLEAN : SetStrictMatching(value)
  \/ \E value \in BOOLEAN : SetDeleteAfterMatch(value)
  \/ \E request \in LiveRequests : Send(request)

Spec == Init /\ [][Next]_vars

\* ------------------------------------------- send, one step at a time
\* Several threads call send on one adapter.  The interpreter may switch
\* threads between any two steps of the loop, and send takes no lock:
\* fetching the next entry from the list iterator, and deleting the matched
\* position, are separate steps.  pos is the value of i (from 1) and the
\* number of items the list iterator has produced.
Threads == 1..NumThreads

Idle == [pc |-> "idle", request |-> NoRequest, pos |-> 0, entry |-> NoEntry,
         removed |-> NoEntry,
         result |-> Outcome(NoRequest, <<>>, 0)]

ConcInit ==
  /\ entries \in Captures
  /\ loaded = entries
  /\ strict_matching \in BOOLEAN
  /\ delete_after_match \in BOOLEAN
  /\ th = [t \in Threads |-> Idle]
  /\ last = NoLast /\ run = NoRun
  /\ live = NoRequest /\ cached = NoRequest /\ verdict = NoVerdict

\* a thread enters send(request)
Call(t, request) ==
  /\ th[t].pc = "idle"
  /\ th' = [th EXCEPT ![t] = [Idle EXCEPT !.pc = "loop", !.request = request]]
  /\ UNCHANGED <<entries, loaded, strict_matching, delete_after_match,
                 last, run, live, cached, verdict>>

\* one iteration of the for loop: the iterator yields entries[i] while i is
\* inside the list as it is now, and the entry is compared
LoopStep(t) ==
  /\ th[t].pc = "loop"
  /\ IF th[t].pos >= Len(entries)
     THEN th' = [th EXCEPT ![t].pc = "raised"]
     ELSE LET pos == th[t].pos + 1
              entry == entries[pos]
          IN th' = [th EXCEPT
                      ![t].pos = pos,
                      ![t].entry = entry,
                      ![t].pc =
                        IF _match_requests(th[t].request,
                                           request_from_entry(entry),
                                           strict_matching)
                        THEN "matched" ELSE "loop"]
  /\ UNCHANGED <<entries, loaded, strict_matching, delete_after_match,
                 last, run, live, cached, verdict>>

\* del self._data['log']['entries'][i] on the list as it is now, then the
\* response is built from the local variable entry
FinishStep(t) ==
  /\ th[t].pc = "matched"
  /\ IF delete_after_match /\ th[t].pos > Len(entries)
     THEN /\ th' = [th EXCEPT ![t].pc = "IndexError"]
          /\ UNCHANGED entries
     ELSE /\ entries' = DeleteMatched(entries, th[t].pos, delete_after_match)
          /\ th' = [th EXCEPT
                      ![t].pc = "returned",
                      ![t].removed = IF delete_after_match
                                     THEN entries[th[t].pos] ELSE NoEntry,
                      ![t].result =
                        [outcome |-> "response", index |-> th[t].pos,
                         entry |-> th[t].entry,
                         response |-> response_from_entry(th[t].entry),
                         redirect |-> RedirectUrl(th[t].request, th[t].entry)]]
  /\ UNCHANGED <<loaded, strict_matching, delete_after_match,
                 last, run, live, cached, verdict>>

ConcNext ==
  \/ \E t \in Threads : \E request \in LiveRequests : Call(t, request)
  \/ \E t \in Threads : LoopStep(t)
  \/ \E t \in Threads : FinishStep(t)

ConcSpec == ConcInit /\ [][ConcNext]_vars

\* ------------------------------------------------- matcher specification
MatchInit ==
  /\ live \in Requests
  /\ cached \in Requests
  /\ strict_matching \in BOOLEAN
  /\ verdict = NoVerdict
  /\ entries = <<>> /\ loaded = <<>>
  /\ delete_after_match = TRUE
  /\ last = NoLast /\ run = NoRun /\ th = <<>>

CallMatchRequests ==
  /\ ~verdict.done
  /\ verdict' = [done |-> TRUE,
                 value |-> _match_requests(live, cached, strict_matching),
                 checks |-> Comparisons(live, cached, strict_matching)]
  /\ UNCHANGED <<entries, loaded, strict_matching, delete_after_match,
                 last, run, th, live, cached>>

MatchNext == CallMatchRequests

MatchSpec == MatchInit /\ [][MatchNext]_vars

\* ================================================================ claims
\* entry e's request matches the live request under the given strictness
Matches(request, e, strict) ==
  _match_requests(request, request_from_entry(e), strict)

\* the positions of store es whose entries match, in store order
MatchingPositions(es, request, strict) ==
  SelectSeq([j \in 1..Len(es) |-> j],
            LAMBDA j : Matches(request, es[j], strict))

\* position k is the first position of es that matches
IsFirstMatch(es, k, request, strict) ==
  /\ k \in 1..Len(es)
  /\ Matches(request, es[k], strict)
  /\ \A j \in 1..(k - 1) : ~Matches(request, es[j], strict)

\* store after is store before with exactly the entry at position k taken out
TakenOut(before, after, k) ==
  /\ Len(after) = Len(before) - 1
  /\ \A j \in 1..Len(after) :
       after[j] = IF j < k THEN before[j] ELSE before[j + 1]

\* C1: with delete_after_match on, a successful send removes exactly one
\* entry, the first one in store order that matches the live request, and
\* the store afterwards is the store before without that entry.
C1_DeleteExactlyMatched ==
  (last.called /\ last.delete /\ last.result.outcome = "response") =>
    \E k \in 1..Len(last.before) :
      /\ IsFirstMatch(last.before, k, last.request, last.strict)
      /\ last.result.entry = last.before[k]
      /\ TakenOut(last.before, entries, k)

C1_Witness ==
  /\ last.called /\ last.delete /\ last.result.outcome = "response"
  /\ Len(last.before) = 3
  /\ last.result.index = 2
  /\ Len(entries) = 2
  /\ Len(MatchingPositions(last.before, last.request, last.strict)) = 2

\* C2: with delete_after_match on and k entries matching request r at the
\* start of a run of consecutive sends of r, the j-th send (j <= k) returns
\* the response of the j-th matching entry in capture order and every later
\* send of the run fails with NoMatchFound.
C2_OneShotSequence ==
  run.delete =>
    LET mp == MatchingPositions(run.start, run.request, run.strict) IN
    \A j \in 1..Len(run.results) :
      IF j <= Len(mp)
      THEN /\ run.results[j].outcome = "response"
           /\ run.results[j].entry = run.start[mp[j]]
           /\ run.results[j].response = response_from_entry(run.start[mp[j]])
      ELSE run.results[j].outcome = "NoMatchFound"

C2_Witness ==
  /\ run.delete
  /\ Len(MatchingPositions(run.start, run.request, run.strict)) = 2
  /\ Len(run.start) = 3
  /\ Len(run.results) = 3
  /\ run.results[1].outcome = "response"
  /\ run.results[2].outcome = "response"
  /\ run.results[1].response # run.results[2].response
  /\ run.results[3].outcome = "NoMatchFound"

\* C4: whenever send returns a response it is the response of the
\* lowest-position matching entry, every earlier entry being a non-match;
\* and whenever some entry of the store matches, send returns a response,
\* however many earlier candidates failed the comparison: a failing
\* candidate never stops the scan.
C4_FirstMatchWins ==
  /\ (last.called /\ last.result.outcome = "response") =>
       /\ IsFirstMatch(last.before, last.result.index, last.request, last.strict)
       /\ last.result.response =
            response_from_entry(last.before[last.result.index])
  /\ (last.called
        /\ \E k \in 1..Len(last.before) :
             Matches(last.request, last.before[k], last.strict)) =>
       /\ last.result.outcome = "response"
       /\ \A j \in 1..(last.result.index - 1) :
            ~Matches(last.request, last.before[j], last.strict)

\* an earlier candidate passed the method/url test, failed the strict header
\* comparison, and the scan went on to a later entry
C4_Witness ==
  /\ last.called /\ last.strict /\ last.result.outcome = "response"
  /\ last.result.index = 2
  /\ Matches(last.request, last.before[1], FALSE)
  /\ ~Matches(last.request, last.before[1], TRUE)

\* C5: send fails with NoMatchFound, returning no response, exactly when no
\* entry of the store matches (in particular when the store is empty), and a
\* returned response is always the recorded response of an entry of the store.
C5_NoMatchFound ==
  last.called =>
    /\ (last.result.outcome = "NoMatchFound") <=>
         (\A j \in 1..Len(last.before) :
            ~Matches(last.request, last.before[j], last.strict))
    /\ (last.result.outcome = "NoMatchFound") =>
         last.result.response = NoResponse
    /\ (last.result.outcome # "NoMatchFound") =>
         /\ last.result.outcome = "response"
         /\ \E j \in 1..Len(last.before) :
              last.result.response = response_from_entry(last.before[j])

\* the store holds entries with the request's method and url, yet none matches
C5_Witness ==
  /\ last.called /\ last.result.outcome = "NoMatchFound"
  /\ Len(last.before) = 2
  /\ \A j \in 1..2 : Matches(last.request, last.before[j], FALSE)

\* C6: with delete_after_match off, send leaves the store unchanged and the
\* sends of a run of identical requests all match the same entry and return
\* the same recorded response.
C6_ReusableEntries ==
  /\ (last.called /\ ~last.delete) => entries = last.before
  /\ ~run.delete =>
       /\ Len(run.results) > 0 => entries = run.start
       /\ \A j \in 1..Len(run.results) : run.results[j] = run.results[1]

C6_Witness ==
  /\ ~run.delete
  /\ Len(run.results) = 3
  /\ run.results[3].outcome = "response"
  /\ Len(entries) = 2

\* C3: with delete_after_match on, concurrent sends on one adapter never
\* return the response of one entry to two live requests.
C3_ConsumedAtMostOnce ==
  delete_after_match =>
    \A t1 \in Threads : \A t2 \in Threads :
      (t1 # t2 /\ th[t1].pc = "returned" /\ th[t2].pc = "returned")
        => th[t1].result.entry.id # th[t2].result.entry.id

\* C7: in loose mode a live request matches a recorded request whenever
\* their methods and urls are equal, whatever the headers and bodies are.
C7_LooseMatch ==
  (verdict.done /\ ~strict_matching
     /\ live.method = cached.method /\ live.url = cached.url)
    => verdict.value

C7_Witness ==
  /\ verdict.done /\ ~strict_matching /\ verdict.value
  /\ live.headers # cached.headers
  /\ KeyList(live.headers) # KeyList(cached.headers)
  /\ Truthy(cached.body) /\ live.body # cached.body

\* the two mappings hold the same name/value pairs in a different order
SamePairsOtherOrder(d1, d2) ==
  /\ {d1.items[j] : j \in 1..Len(d1.items)} = {d2.items[j] : j \in 1..Len(d2.items)}
  /\ Len(d1.items) = Len(d2.items)
  /\ d1.items # d2.items

\* C8: in strict mode a live request whose headers have the names and
\* values of the recorded request in a different order does not match.
C8_HeaderOrder ==
  (verdict.done /\ strict_matching /\ SamePairsOtherOrder(live.headers, cached.headers))
    => ~verdict.value

\* the name -> value content of a mapping, order forgotten
AsSet(d) == {<<d.items[j].name, d.items[j].value>> : j \in 1..Len(d.items)}

\* the two header mappings differ at most in the order of the cookies inside
\* the Cookie header
SameButCookieOrder(h1, h2) ==
  /\ KeyList(h1) = KeyList(h2)
  /\ \A j \in 1..Len(h1.items) :
       IF h1.items[j].name = NameCookie
       THEN AsSet(cookie_header_to_dict(h1.items[j].value))
              = AsSet(cookie_header_to_dict(h2.items[j].value))
       ELSE h1.items[j].value = h2.items[j].value

\* C9: in strict mode cookies are compared as an unordered set: requests
\* equal in method, url, header names and order, other header values and
\* body match when their Cookie headers hold the same cookies in any order.
C9_CookieSet ==
  (verdict.done /\ strict_matching
     /\ live.method = cached.method /\ live.url = cached.url
     /\ live.body = cached.body
     /\ SameButCookieOrder(live.headers, cached.headers))
    => verdict.value

\* C10: in strict mode, with method, url and headers matching, an empty
\* recorded body matches every live body and a non-empty recorded body
\* matches exactly the live body equal to it.
C10_BodyAsymmetry ==
  (verdict.done /\ strict_matching
     /\ live.method = cached.method /\ live.url = cached.url
     /\ _do_headers_match(live.headers, cached.headers))
    => /\ ~Truthy(cached.body) => verdict.value
       /\ Truthy(cached.body) => (verdict.value <=> live.body = cached.body)

C10_Witness ==
  /\ verdict.done /\ strict_matching /\ verdict.value
  /\ cached.body = "" /\ live.body = "x=2"
  /\ Len(live.headers.items) = 2

\* C11: a redirect target that starts with '/' is resolved against the live
\* request's origin: the live url's scheme and host (with its port, if any)
\* followed by that path (live https://host.test/a with target /next gives
\* https://host.test/next); a non-empty target that does not start with '/'
\* is used unchanged.
C11_RedirectResolution ==
  (last.called /\ last.result.outcome = "response") =>
    LET target == last.result.entry.response.redirectURL
        liveUrl == parse_url(last.request.url)
    IN /\ (target = "/next" /\ last.request.url = "https://host.test/a")
            => last.result.redirect = "https://host.test/next"
       /\ (target # "" /\ StartsWithSlash(target))
            => last.result.redirect = UrlText([liveUrl EXCEPT !.path = target])
       /\ (target # "" /\ ~StartsWithSlash(target))
            => last.result.redirect = target
       /\ target = "" => last.result.redirect = ""

\* sub is an order-preserving subsequence of full
RECURSIVE IsSubsequence(_, _)
IsSubsequence(sub, full) ==
  IF sub = <<>> THEN TRUE
  ELSE IF full = <<>> THEN FALSE
  ELSE IF Head(sub) = Head(full) THEN IsSubsequence(Tail(sub), Tail(full))
  ELSE IsSubsequence(sub, Tail(full))

\* C12: after any sequence of sends and setting changes the store is an
\* order-preserving subsequence of the store loaded at construction: it
\* never grows, gains no entry that was not loaded and is never reordered.
C12_StoreIsSubsequence ==
  /\ Len(entries) <= Len(loaded)
  /\ \A j \in 1..Len(entries) : \E k \in 1..Len(loaded) : entries[j] = loaded[k]
  /\ IsSubsequence(entries, loaded)

\* the first and the last loaded entry are left, the middle one was consumed
C12_Witness ==
  /\ Len(loaded) = 3 /\ Len(entries) = 2
  /\ entries[1] = loaded[1] /\ entries[2] = loaded[3]
  /\ last.called /\ last.result.index = 2

\* the comparisons of the given kind among those the call performed
ChecksOf(kind) ==
  SelectSeq(verdict.checks, LAMBDA c : c.check = kind)

\* C13: in both modes a live request never matches a recorded request whose
\* method or url differs, whatever the headers and bodies are, and then no
\* header, cookie or body comparison is performed.
C13_BaselineRequired ==
  (verdict.done /\ (live.method # cached.method \/ live.url # cached.url))
    => /\ ~verdict.value
       /\ verdict.checks = <<>>

\* only the method differs, in loose mode
C13_Witness ==
  /\ verdict.done /\ ~strict_matching /\ ~verdict.value
  /\ live.method # cached.method /\ live.url = cached.url
  /\ live.headers = cached.headers /\ live.body = cached.body

\* the name -> value content of a mapping under its own key lookup
Lookup(d) == {<<Key(d, d.items[j].name), d.items[j].value>> : j \in 1..Len(d.items)}
Elements(seq) == {seq[j] : j \in 1..Len(seq)}

\* C14: a mapping comparison computes missing (names of the recorded
\* mapping absent from the live one), redundant (names of the live mapping
\* absent from the recorded one) and mismatching (names in both with
\* different values), and its verdict is true exactly when all three are
\* empty, that is when both mappings hold the same names with the same values.
C14_ThreeCategories ==
  \A j \in 1..Len(verdict.checks) :
    LET c == verdict.checks[j] IN
    c.check \in {"headers", "cookies"} =>
      /\ Elements(c.missing) =
           {k \in KeysView(c.cached_dict) : ~Has(c.request_dict, k)}
      /\ Elements(c.redundant) =
           {k \in KeysView(c.request_dict) : ~Has(c.cached_dict, k)}
      /\ Elements(c.mismatching) =
           {k \in KeysView(c.cached_dict) :
              Has(c.request_dict, k)
              /\ Get(c.request_dict, k) # Get(c.cached_dict, k)}
      /\ c.ok <=> (c.missing = <<>> /\ c.redundant = <<>> /\ c.mismatching = <<>>)
      /\ c.ok <=> (Lookup(c.request_dict) = Lookup(c.cached_dict))

\* a cookie comparison with one missing and no mismatching name, next to a
\* header comparison that reports only a mismatching name
C14_Witness ==
  /\ verdict.done
  /\ Len(ChecksOf("cookies")) = 1 /\ Len(ChecksOf("headers")) = 1
  /\ ChecksOf("cookies")[1].missing # <<>>
  /\ ChecksOf("cookies")[1].redundant = <<>>
  /\ ChecksOf("cookies")[1].mismatching = <<>>
  /\ ChecksOf("headers")[1].mismatching = <<NameCookie>>
  /\ ChecksOf("headers")[1].missing = <<>>
  /\ ~ChecksOf("headers")[1].ok

\* C15 as stated: in strict mode, when the live header names do not equal
\* the recorded header names, neither the cookie comparison nor the body
\* comparison is performed and only the two name orderings are reported.
C15_ShortCircuit ==
  (verdict.done /\ strict_matching
     /\ live.method = cached.method /\ live.url = cached.url
     /\ KeyList(live.headers) # KeyList(cached.headers))
    => /\ ChecksOf("cookies") = <<>>
       /\ ChecksOf("body") = <<>>
       /\ \A j \in 1..Len(verdict.checks) :
            /\ verdict.checks[j].missing = <<>>
            /\ verdict.checks[j].redundant = <<>>
            /\ verdict.checks[j].mismatching = <<>>

\* C15, amended: in strict mode, when the set of live header names differs
\* from the set of recorded header names, the candidate is rejected and the
\* body comparison is not performed, but the header value comparison is
\* still performed, and so is the cookie comparison whenever either side
\* carries a Cookie header.
C15_KeyMismatchSkipsBodyOnly ==
  (verdict.done /\ strict_matching
     /\ live.method = cached.method /\ live.url = cached.url
     /\ KeysView(live.headers) # KeysView(cached.headers))
    => /\ ~verdict.value
       /\ ChecksOf("body") = <<>>
       /\ Len(ChecksOf("keys")) = 1 /\ ~ChecksOf("keys")[1].ok
       /\ Len(ChecksOf("headers")) = 1
       /\ (Len(ChecksOf("cookies")) = 1) <=>
            (Has(live.headers, NameCookie) \/ Has(cached.headers, NameCookie))
       /\ Len(verdict.checks) \in {2, 3}

\* the names differ, the recorded body is not empty, and the cookie
\* comparison was carried out and reported a missing cookie
C15_Witness ==
  /\ verdict.done /\ strict_matching
  /\ live.method = cached.method /\ live.url = cached.url
  /\ KeysView(live.headers) # KeysView(cached.headers)
  /\ Truthy(cached.body) /\ live.body # cached.body
  /\ Len(ChecksOf("cookies")) = 1
  /\ ChecksOf("cookies")[1].missing # <<>>

\* C16: the response send returns carries the status, headers and body
\* recorded in the matched entry, unchanged, whatever the entry's redirect
\* target is; with delete_after_match on it is the response of the removed
\* entry, not of the entry that took its position.
C16_ResponseAsRecorded ==
  (last.called /\ last.result.outcome = "response") =>
    LET k == last.result.index
        recorded == last.before[k].response
    IN /\ last.result.response.status = recorded.status
       /\ last.result.response.headers.items = recorded.headers
       /\ last.result.response.content = recorded.content
       /\ (last.delete /\ k <= Len(entries)) =>
            /\ entries[k] # last.before[k]
            /\ last.result.response.content # entries[k].response.content

\* a redirecting entry was removed and another entry took its position
C16_Witness ==
  /\ last.called /\ last.delete /\ last.result.outcome = "response"
  /\ last.result.index = 1 /\ Len(entries) = 2
  /\ last.result.entry.response.redirectURL = "/next"
  /\ last.result.response.status = 302
  /\ entries[1].response.status = 200

\* C17: a send that fails with NoMatchFound leaves the store and both
\* settings as they were, and a later send of a request that an entry of
\* the store matches still returns a response.
C17_FailedSendChangesNothing ==
  [][ /\ (run' # run /\ last'.result.outcome = "NoMatchFound") =>
           /\ entries' = entries
           /\ loaded' = loaded
           /\ strict_matching' = strict_matching
           /\ delete_after_match' = delete_after_match
      /\ (run' # run /\ last.called /\ last.result.outcome = "NoMatchFound"
            /\ \E j \in 1..Len(entries) :
                 _match_requests(last'.request, request_from_entry(entries[j]),
                                 strict_matching)) =>
           last'.result.outcome = "response"
    ]_vars

\* after a failed send under non-default settings the store is whole and
\* holds an entry that another request matches
C17_Witness ==
  /\ last.called /\ last.result.outcome = "NoMatchFound"
  /\ ~last.strict /\ ~strict_matching
  /\ last.delete /\ delete_after_match
  /\ Len(last.before) = 3 /\ entries = last.before
  /\ \E request \in LiveRequests :
       \E j \in 1..Len(entries) :
         _match_requests(request, request_from_entry(entries[j]), strict_matching)

\* C18: with delete_after_match on, in every interleaving the entry a send
\* removes is the entry it matched, and no send deletes at a position that
\* is no longer in the list.
C18_RemovesWhatItMatched ==
  delete_after_match =>
    \A t \in Threads :
      /\ th[t].pc # "IndexError"
      /\ th[t].pc = "returned" => th[t].removed = th[t].entry

\* C19: strict matching is never more permissive than loose matching: an
\* entry that matches a live request strictly also matches it loosely, so a
\* send that succeeds in strict mode on a store finds a match in loose mode
\* on that store too.
C19_StrictImpliesLoose ==
  (last.called /\ last.strict) =>
    /\ \A j \in 1..Len(last.before) :
         _match_requests(last.request, request_from_entry(last.before[j]), TRUE)
           => _match_requests(last.request, request_from_entry(last.before[j]), FALSE)
    /\ last.result.outcome = "response" =>
         \E j \in 1..Len(last.before) :
           _match_requests(last.request, request_from_entry(last.before[j]), FALSE)

\* a strict send succeeded on a store that also holds an entry matching only
\* loosely
C19_Witness ==
  /\ last.called /\ last.strict /\ last.result.outcome = "response"
  /\ last.result.index = 2
  /\ _match_requests(last.request, request_from_entry(last.before[1]), FALSE)
  /\ ~_match_requests(last.request, request_from_entry(last.before[1]), TRUE)
  /\ Len(last.before) = 3

====
